---- MODULE Spec2Model ----
(***************************************************************************)
(* The key-exchange driver (kex.rs) and the channel's general handler and  *)
(* close handshake (channel.rs) of the ssh-rs client, as a state machine.  *)
(*                                                                         *)
(* A payload is a sequence: <<>> is the empty payload (result.is_empty()), *)
(* otherwise its first element is the message code and the rest are the    *)
(* fields the handlers read from it.  client.read() returns a batch of     *)
(* payloads; the loops take them one at a time, so the batch is kept as    *)
(* the number of payloads still to be taken (pending), and each payload is *)
(* drawn when the loop takes it.  A return inside the for loop drops what  *)
(* is left of the batch.                                                   *)
(***************************************************************************)
EXTENDS Integers, Sequences, FiniteSets, TLC

\* ---------------------------------------------------------------- bounds
MaxVal    == 1   \* the server's ephemeral public keys Q_S are 1..MaxVal
MaxBatch  == 2   \* payloads returned by one client.read()
MaxOut    == 7   \* packets written on the transport in one run
MaxWindow == 1   \* cap on the remote window counter

\* ------------------------------------------------------- message codes
SSH_MSG_IGNORE                == 2
SSH_MSG_KEXINIT               == 20
SSH_MSG_NEWKEYS               == 21
SSH_MSG_KEX_ECDH_INIT         == 30
SSH_MSG_KEX_ECDH_REPLY        == 31
SSH_MSG_GLOBAL_REQUEST        == 80
SSH_MSG_REQUEST_FAILURE       == 82
SSH_MSG_CHANNEL_WINDOW_ADJUST == 93
SSH_MSG_CHANNEL_EOF           == 96
SSH_MSG_CHANNEL_CLOSE         == 97
SSH_MSG_CHANNEL_REQUEST       == 98
SSH_MSG_CHANNEL_SUCCESS       == 99
SSH_MSG_CHANNEL_FAILURE       == 100

\* The channel numbers of the one session channel (WindowSize fields).
client_channel == 0
server_channel == 0

Vals     == 1..MaxVal
Channels == {client_channel, client_channel + 1}   \* recipient channels on the wire

\* Encryption algorithms a server KEXINIT may carry; the client supports the
\* first two, "3des-cbc" is well formed but shared with no client algorithm.
Supported == {"aes128-ctr", "chacha20-poly1305@openssh.com"}
EncAlgs   == Supported \cup {"3des-cbc"}

\* K_S, the server's host key blob.
HostKey == "ssh-rsa"

\* The signature field of a KEX_ECDH_REPLY: the host key's signature over the
\* exchange hash the client computes, or that signature with a bit flipped.
Sigs == {"valid", "flipped"}

\* Every payload a server whose KEXINIT offers algorithm a may put on the wire.
MessagesOf(a) ==
    {<<>>}
    \cup {<<SSH_MSG_IGNORE>>, <<SSH_MSG_GLOBAL_REQUEST>>, <<SSH_MSG_NEWKEYS>>,
          <<SSH_MSG_CHANNEL_EOF>>, <<SSH_MSG_CHANNEL_REQUEST>>,
          <<SSH_MSG_CHANNEL_SUCCESS>>, <<SSH_MSG_CHANNEL_FAILURE>>}
    \cup {<<SSH_MSG_KEXINIT, a>>}
    \cup {<<SSH_MSG_KEX_ECDH_REPLY, HostKey, qs, sg>> : qs \in Vals, sg \in Sigs}
    \cup {<<SSH_MSG_CHANNEL_WINDOW_ADJUST, cc, 1>> : cc \in Channels}
    \cup {<<SSH_MSG_CHANNEL_CLOSE, cc>> : cc \in Channels}

VARIABLES
    server_offer,    \* the server's configuration: the algorithm its KEXINIT offers
    pc,              \* the operation the session is in
    pending,         \* payloads of the last read batch not yet taken by the loop
    result,          \* [op, res]: the last operation that returned and what it returned
    session_id,      \* Kex.session_id
    h,               \* Kex.h, the transcript
    dh,              \* the ephemeral key pair (its public value)
    server_algorithm,\* config.algorithm.server_algorithm (encryption family)
    IS_ENCRYPT,      \* encryption::IS_ENCRYPT
    encryption_key,  \* the slot update_encryption_key() writes
    remote_close,    \* Channel.remote_close
    local_close,     \* Channel.local_close
    remote_window,   \* Channel.window_size, remote side
    out,             \* packets written by client.write, each with the mode it was framed in
    transport,       \* "up", or "down" once a read or write has failed
    verified,        \* history: a reply of the current exchange passed verification
    sig_rejected,    \* history: some verification returned false
    h_sets           \* history: how often each field of h was set in the current exchange

Messages == MessagesOf(server_offer)

vars == <<server_offer, pc, pending, result, session_id, h, dh, server_algorithm, IS_ENCRYPT,
          encryption_key, remote_close, local_close, remote_window, out,
          transport, verified, sig_rejected, h_sets>>

\* --------------------------------------------------------- program data
Empty == <<>>             \* an empty Vec<u8>
None  == [cipher |-> "None"]

\* H::new()
NewH == [v_c |-> Empty, v_s |-> Empty, i_c |-> Empty, i_s |-> Empty,
         k_s |-> Empty, q_c |-> Empty, q_s |-> Empty, k |-> Empty]

\* No field of the transcript has been set in the exchange that now begins.
Fields  == {"v_c", "v_s", "i_c", "i_s", "k_s", "q_c", "q_s", "k"}
NotSet  == [f \in Fields |-> 0]

\* hash::digest(hash_type, h.as_bytes()): as_bytes writes the eight fields
\* length-prefixed in order, so distinct transcripts give distinct input; the
\* digest is kept as that input.
Digest(t) == <<t.v_c, t.v_s, t.i_c, t.i_s, t.k_s, t.q_c, t.q_s, t.k>>

\* key_exchange.get_shared_secret(qs): determined by the client's key pair and Q_S.
SharedSecret(d, qs) == <<d, qs>>

\* SIGN::verify_signature(k_s, session_id, sig)
VerifySignature(ks, sid, sig) == sig = "valid"

\* The program data the operations read and write, as one record; res is the
\* SshResult of the operation so far ("ok" while nothing has failed) and io the
\* number of client.write calls that will still succeed: none once the
\* transport is down.
St(io) == [res |-> "ok", io |-> IF transport = "down" THEN 0 ELSE io,
           session_id |-> session_id, h |-> h, dh |-> dh,
           server_algorithm |-> server_algorithm,
           IS_ENCRYPT |-> IS_ENCRYPT, encryption_key |-> encryption_key,
           remote_close |-> remote_close, local_close |-> local_close,
           remote_window |-> remote_window, out |-> out, h_sets |-> h_sets]

Ok(s) == s.res = "ok"

\* h.set_<f>(v): the field takes the value; the history counts the call (two
\* stands for two or more).
SetH(s, f, v) == [s EXCEPT !.h[f] = v, !.h_sets[f] = IF @ < 2 THEN @ + 1 ELSE 2]

\* A key exchange begins (a server KEXINIT reaches the general handler) or has
\* ended (the keys are installed): the history of the setters starts again.
ExchangeBoundary(s) == [s EXCEPT !.h_sets = NotSet]

\* client.write(data): frames the packet in the mode IS_ENCRYPT selects.
Write(s, code) ==
    IF s.io = 0
    THEN [s EXCEPT !.res = "IoError"]
    ELSE [s EXCEPT !.io = @ - 1,
                   !.out = Append(@, [code |-> code, enc |-> s.IS_ENCRYPT])]

\* The key exchanges the client has opened: the KEXINIT packets it has written.
Exchanges(s) == Cardinality({i \in 1..Len(s.out) : s.out[i].code = SSH_MSG_KEXINIT})

\* util::cookie(): 16 random bytes, a value no earlier KEXINIT carried.
cookie(s) == Exchanges(s) + 1

\* Kex::send_algorithm
send_algorithm(s) ==
    LET s1 == IF s.IS_ENCRYPT
              THEN [s EXCEPT !.IS_ENCRYPT = FALSE, !.encryption_key = None]
              ELSE s
        s2 == SetH(s1, "i_c", <<cookie(s1)>>)
    IN  Write(s2, SSH_MSG_KEXINIT)

\* processing_server_algorithm
processing_server_algorithm(s, data) ==
    [s EXCEPT !.server_algorithm = data[2]]

\* config.algorithm.matching_algorithm(), then kex.dh, kex.signature, V_C and
\* V_S.  The key pair is new with every call: it is numbered by the exchange.
matching_algorithm(s) ==
    IF s.server_algorithm \notin Supported
    THEN [s EXCEPT !.res = "AlgorithmError"]
    ELSE SetH(SetH([s EXCEPT !.dh = Exchanges(s)], "v_c", <<"SSH-2.0-client">>),
              "v_s", <<"SSH-2.0-server">>)

\* send_qc that builds the packet and never writes it
send_qc_not_written(s) == s

\* Kex::send_qc
send_qc(s) == Write(s, SSH_MSG_KEX_ECDH_INIT)

\* Kex::generate_session_id_and_get_signature; the signature it returns is data[4].
generate_session_id(s, data) ==
    LET s1 == SetH(s, "k_s", <<data[2]>>)
        s2 == SetH(s1, "q_c", <<s.dh>>)
        s3 == SetH(s2, "q_s", <<data[3]>>)
        s4 == SetH(s3, "k", SharedSecret(s.dh, data[3]))
    IN  [s4 EXCEPT !.session_id = Digest(s4.h)]

\* The KEX_ECDH_REPLY arm shared by verify_signature_and_new_keys and other.
ecdh_reply(s, data) ==
    LET s1 == generate_session_id(s, data)
        r  == VerifySignature(s1.h.k_s, s1.session_id, data[4])
    IN  IF ~r THEN [s1 EXCEPT !.res = "SignatureError"] ELSE s1

\* Kex::new_keys
new_keys(s) ==
    LET s1 == Write(s, SSH_MSG_NEWKEYS)
    IN  IF ~Ok(s1) THEN s1
        ELSE ExchangeBoundary(
                 [s1 EXCEPT !.IS_ENCRYPT = TRUE,
                            !.encryption_key = [cipher |-> "AesCtr", k |-> s1.h.k,
                                                h |-> s1.session_id,
                                                session_id |-> s1.session_id]])

\* send_close that sets local_close before it writes
send_close_flag_first(s) ==
    IF s.local_close THEN s
    ELSE Write([s EXCEPT !.local_close = TRUE], SSH_MSG_CHANNEL_CLOSE)

\* send_close without its local_close test
send_close_unguarded(s) ==
    LET s1 == Write(s, SSH_MSG_CHANNEL_CLOSE)
    IN  IF ~Ok(s1) THEN s1 ELSE [s1 EXCEPT !.local_close = TRUE]

\* Channel::send_close
send_close(s) ==
    IF s.local_close THEN s
    ELSE LET s1 == Write(s, SSH_MSG_CHANNEL_CLOSE)
         IN  IF ~Ok(s1) THEN s1 ELSE [s1 EXCEPT !.local_close = TRUE]

\* close whose receive_close does not test remote_close before it reads
close_always_reads(s) ==
    LET s1 == send_close(s)
    IN  IF ~Ok(s1) THEN s1 ELSE [s1 EXCEPT !.res = "loop"]

\* Channel::close up to the drain loop of receive_close: res is "loop" when
\* receive_close goes on to read from the transport.
close(s) ==
    LET s1 == send_close(s)
    IN  IF ~Ok(s1) THEN s1
        ELSE IF s1.remote_close THEN s1
        ELSE [s1 EXCEPT !.res = "loop"]

\* a CHANNEL_FAILURE arm that is empty like its neighbours
channel_failure_ignored(s) == s

\* The SSH_MSG_CHANNEL_FAILURE arm of Channel::other
channel_failure(s) == [s EXCEPT !.res = "ChannelFailureError"]

\* an empty arm that takes the message for the end of the channel
acknowledge_as_close(s) == [s EXCEPT !.remote_close = TRUE]

\* The empty arms of Channel::other: CHANNEL_EOF, CHANNEL_REQUEST,
\* CHANNEL_SUCCESS and `_ => {}`
acknowledge(s) == s

\* Channel::other: res is "ok" for Ok(()), else the error (or "loop", see close)
other(s, data) ==
    LET code == data[1] IN
    CASE code = SSH_MSG_GLOBAL_REQUEST -> Write(s, SSH_MSG_REQUEST_FAILURE)
      [] code = SSH_MSG_KEXINIT ->
            LET s1 == processing_server_algorithm(
                          SetH(ExchangeBoundary(s), "i_s", <<data[2]>>), data)
                s2 == send_algorithm(s1)
                s3 == IF Ok(s2) THEN matching_algorithm(s2) ELSE s2
            IN  IF Ok(s3) THEN send_qc(s3) ELSE s3
      [] code = SSH_MSG_KEX_ECDH_REPLY -> ecdh_reply(s, data)
      [] code = SSH_MSG_NEWKEYS -> new_keys(s)
      [] code = SSH_MSG_CHANNEL_WINDOW_ADJUST ->
            [s EXCEPT !.remote_window = @ + data[3]]
      [] code = SSH_MSG_CHANNEL_EOF -> acknowledge(s)
      [] code = SSH_MSG_CHANNEL_REQUEST -> acknowledge(s)
      [] code = SSH_MSG_CHANNEL_SUCCESS -> acknowledge(s)
      [] code = SSH_MSG_CHANNEL_FAILURE -> channel_failure(s)
      [] code = SSH_MSG_CHANNEL_CLOSE ->
            IF data[2] = client_channel
            THEN close([s EXCEPT !.remote_close = TRUE])
            ELSE s
      [] OTHER -> acknowledge(s)

\* "next": the for loop goes on to the following payload of the batch.
Continue(s) == [s EXCEPT !.res = "next"]

\* Kex::receive_algorithm, the body of its for loop on one payload
receive_algorithm_step(s, data) ==
    IF data = Empty THEN Continue(s)
    ELSE IF data[1] = SSH_MSG_KEXINIT
         THEN processing_server_algorithm(SetH(s, "i_s", <<data[2]>>), data)
         ELSE Continue(s)

\* verify_signature_and_new_keys whose NEWKEYS arm does not return
verify_step_no_return(s, data) ==
    IF data = Empty THEN Continue(s)
    ELSE IF data[1] = SSH_MSG_KEX_ECDH_REPLY
         THEN LET s1 == ecdh_reply(s, data) IN IF Ok(s1) THEN Continue(s1) ELSE s1
    ELSE IF data[1] = SSH_MSG_NEWKEYS
         THEN LET s1 == new_keys(s) IN IF Ok(s1) THEN Continue(s1) ELSE s1
         ELSE Continue(s)

\* Kex::verify_signature_and_new_keys, the body of its for loop on one payload
verify_step(s, data) ==
    IF data = Empty THEN Continue(s)
    ELSE IF data[1] = SSH_MSG_KEX_ECDH_REPLY
         THEN LET s1 == ecdh_reply(s, data) IN IF Ok(s1) THEN Continue(s1) ELSE s1
    ELSE IF data[1] = SSH_MSG_NEWKEYS
         THEN new_keys(s)
         ELSE Continue(s)

\* receive_close that sets remote_close on the peer's CHANNEL_CLOSE and reads on
receive_close_step_no_return(s, data) ==
    IF data = Empty THEN Continue(s)
    ELSE IF data[1] = SSH_MSG_CHANNEL_CLOSE
         THEN IF data[2] = client_channel
              THEN Continue([s EXCEPT !.remote_close = TRUE])
              ELSE Continue(s)
         ELSE LET s1 == other(s, data) IN IF Ok(s1) THEN Continue(s1) ELSE s1

\* receive_close without the comparison of the recipient channel
receive_close_step_any_channel(s, data) ==
    IF data = Empty THEN Continue(s)
    ELSE IF data[1] = SSH_MSG_CHANNEL_CLOSE
         THEN [s EXCEPT !.remote_close = TRUE]
         ELSE LET s1 == other(s, data) IN IF Ok(s1) THEN Continue(s1) ELSE s1

\* Channel::receive_close, the body of its for loop on one payload
receive_close_step(s, data) ==
    IF data = Empty THEN Continue(s)
    ELSE IF data[1] = SSH_MSG_CHANNEL_CLOSE
         THEN IF data[2] = client_channel
              THEN [s EXCEPT !.remote_close = TRUE]
              ELSE Continue(s)
         ELSE LET s1 == other(s, data) IN IF Ok(s1) THEN Continue(s1) ELSE s1

\* ------------------------------------------------------------- actions
\* How many of the writes a handler makes for payload data may succeed: the
\* KEXINIT arm writes two packets, three arms write one, the rest none.
IoChoices(data) ==
    IF data = Empty THEN {1}
    ELSE IF data[1] = SSH_MSG_KEXINIT THEN 0..2
    ELSE IF data[1] \in {SSH_MSG_GLOBAL_REQUEST, SSH_MSG_NEWKEYS, SSH_MSG_CHANNEL_CLOSE}
         THEN 0..1
         ELSE {1}

\* The record's program data becomes the next state, within the bounds.
Apply(s) ==
    /\ Len(s.out) <= MaxOut
    /\ s.remote_window <= MaxWindow
    /\ session_id' = s.session_id
    /\ h' = s.h
    /\ dh' = s.dh
    /\ server_algorithm' = s.server_algorithm
    /\ IS_ENCRYPT' = s.IS_ENCRYPT
    /\ encryption_key' = s.encryption_key
    /\ remote_close' = s.remote_close
    /\ local_close' = s.local_close
    /\ remote_window' = s.remote_window
    /\ out' = s.out
    /\ h_sets' = s.h_sets
    /\ server_offer' = server_offer
    /\ transport' = IF s.res = "IoError" THEN "down" ELSE transport

\* History of the exchange: a reply passes or fails verification, a KEXINIT
\* opens a new exchange, a NEWKEYS ends it.
Track(data, s) ==
    /\ sig_rejected' = (sig_rejected \/ s.res = "SignatureError")
    /\ verified' = IF data = Empty THEN verified
                   ELSE IF data[1] = SSH_MSG_KEX_ECDH_REPLY THEN s.res \in {"ok", "next"}
                   ELSE IF data[1] \in {SSH_MSG_KEXINIT, SSH_MSG_NEWKEYS} THEN FALSE
                   ELSE verified

\* The operation op, in its loop, has handled a payload with outcome s: the
\* loop goes on, or op returns and the caller is at okpc or errpc.
Step(op, s, okpc, errpc) ==
    /\ Apply(s)
    /\ IF s.res = "next"
       THEN /\ pending' = pending - 1
            /\ UNCHANGED <<pc, result>>
       ELSE /\ pending' = 0
            /\ pc' = IF Ok(s) THEN okpc ELSE errpc
            /\ result' = [op |-> op, res |-> s.res]

\* client.read()? inside the loop of operation op, at pc value at: a batch of
\* 1..MaxBatch payloads (an empty batch leaves the loop where it is), or an
\* error, which the ? returns to the caller, who is then at pc value back.
Read(at, op, back) ==
    /\ pc = at
    /\ pending = 0
    /\ \/ /\ transport = "up"
          /\ pending' \in 1..MaxBatch
          /\ UNCHANGED <<pc, result, transport>>
       \/ /\ result' = [op |-> op, res |-> "IoError"]
          /\ pc' = back
          /\ transport' = "down"
          /\ UNCHANGED pending
    /\ UNCHANGED <<server_offer, session_id, h, dh, server_algorithm, IS_ENCRYPT,
                   encryption_key, remote_close, local_close, remote_window, out,
                   verified, sig_rejected, h_sets>>

\* Session setup calls send_algorithm first.
SendAlgorithm ==
    /\ pc = "send_algorithm"
    /\ \E io \in 0..1 :
         LET s == send_algorithm(St(io)) IN
         Step("send_algorithm", s, "receive_algorithm", "failed")
    /\ UNCHANGED <<verified, sig_rejected>>

\* Kex::receive_algorithm takes payload data from the batch.
ReceiveAlgorithmTake(data) ==
    /\ pc = "receive_algorithm"
    /\ pending > 0
    /\ LET s == receive_algorithm_step(St(1), data) IN
         Step("receive_algorithm", s, "negotiate", "failed")
    /\ UNCHANGED <<verified, sig_rejected>>

ReceiveAlgorithm ==
    \/ Read("receive_algorithm", "receive_algorithm", "failed")
    \/ \E data \in Messages : ReceiveAlgorithmTake(data)

\* Between receive_algorithm and send_qc the session picks the algorithms.
Negotiate ==
    /\ pc = "negotiate"
    /\ LET s == matching_algorithm(St(1)) IN
         Step("matching_algorithm", s, "send_qc", "failed")
    /\ UNCHANGED <<verified, sig_rejected>>

SendQc ==
    /\ pc = "send_qc"
    /\ \E io \in 0..1 :
         LET s == send_qc(St(io)) IN
         Step("send_qc", s, "verify", "failed")
    /\ UNCHANGED <<verified, sig_rejected>>

\* Kex::verify_signature_and_new_keys takes payload data from the batch.  When
\* the function returns Ok the session is established and its channel is open.
VerifyTake(data, io) ==
    /\ pc = "verify"
    /\ pending > 0
    /\ LET s == verify_step(St(io), data) IN
         /\ Step("verify", s, "idle", "failed")
         /\ Track(data, s)

VerifySignatureAndNewKeys ==
    \/ Read("verify", "verify", "failed")
    \/ \E data \in Messages : \E io \in IoChoices(data) : VerifyTake(data, io)

\* The application calls Channel::close on the open channel.
CloseCall(io) ==
    /\ pc = "idle"
    /\ LET s == close(St(io)) IN
         /\ Apply(s)
         /\ IF s.res = "loop"
            THEN pc' = "receive_close" /\ UNCHANGED result
            ELSE pc' = "idle" /\ result' = [op |-> "close", res |-> s.res]
    /\ UNCHANGED <<pending, verified, sig_rejected>>

Close == \E io \in 0..1 : CloseCall(io)

\* Channel::receive_close takes payload data from the batch.
ReceiveCloseTake(data, io) ==
    /\ pc = "receive_close"
    /\ pending > 0
    /\ LET s == receive_close_step(St(io), data) IN
         /\ Step("close", s, "idle", "idle")
         /\ Track(data, s)

ReceiveClose ==
    \/ Read("receive_close", "close", "idle")
    \/ \E data \in Messages : \E io \in IoChoices(data) : ReceiveCloseTake(data, io)

\* A payload read outside close() (by the shell or exec sub-channel) is handed
\* to Channel::other.
DispatchTake(data, io) ==
    /\ pc = "idle"
    /\ transport = "up"
    /\ LET s == other(St(io), data) IN
         /\ Apply(s)
         /\ Track(data, s)
         /\ IF s.res = "loop"
            THEN pc' = "receive_close" /\ UNCHANGED result
            ELSE pc' = "idle" /\ result' = [op |-> "other", res |-> s.res]
    /\ UNCHANGED pending

Dispatch ==
    \E data \in Messages \ {Empty} : \E io \in IoChoices(data) : DispatchTake(data, io)

\* Kex::new(), and a channel that is not closed on either side.
Init ==
    /\ server_offer \in EncAlgs
    /\ pc = "send_algorithm"
    /\ pending = 0
    /\ result = [op |-> "new", res |-> "ok"]
    /\ session_id = Empty
    /\ h = NewH
    /\ dh = 0
    /\ server_algorithm = ""
    /\ IS_ENCRYPT = FALSE
    /\ encryption_key = None
    /\ remote_close = FALSE
    /\ local_close = FALSE
    /\ remote_window = 0
    /\ out = <<>>
    /\ transport = "up"
    /\ verified = FALSE
    /\ sig_rejected = FALSE
    /\ h_sets = NotSet

Next ==
    \/ SendAlgorithm
    \/ ReceiveAlgorithm
    \/ Negotiate
    \/ SendQc
    \/ VerifySignatureAndNewKeys
    \/ Close
    \/ ReceiveClose
    \/ Dispatch

Spec == Init /\ [][Next]_vars

\* ------------------------------------------- a server that keeps its word
\* The liveness claims are about a transport that keeps delivering and a peer
\* that sends what the protocol promises, with unrelated messages in between.
\* LiveSpec runs the same operations against that peer: no read or write
\* fails, and a phase takes the unrelated payloads and the one it waits for.
Unrelated ==
    {Empty, <<SSH_MSG_IGNORE>>, <<SSH_MSG_GLOBAL_REQUEST>>, <<SSH_MSG_CHANNEL_EOF>>,
     <<SSH_MSG_CHANNEL_REQUEST>>, <<SSH_MSG_CHANNEL_SUCCESS>>}
    \cup {<<SSH_MSG_CHANNEL_WINDOW_ADJUST, cc, 1>> : cc \in Channels}

\* client.read() returns a batch.
Deliver(at, op, back) == Read(at, op, back) /\ transport' = "up"

\* The server's KEXINIT reaches receive_algorithm.
ServerKexInit == ReceiveAlgorithmTake(<<SSH_MSG_KEXINIT, server_offer>>)

\* The server's KEX_ECDH_REPLY, signed with its host key, reaches the verify loop.
ServerReply ==
    /\ ~verified
    /\ \E qs \in Vals : VerifyTake(<<SSH_MSG_KEX_ECDH_REPLY, HostKey, qs, "valid">>, 1)

\* The server's NEWKEYS follows its reply.
ServerNewKeys == verified /\ VerifyTake(<<SSH_MSG_NEWKEYS>>, 1)

\* The peer's CHANNEL_CLOSE for the client's channel reaches the drain loop.
PeerClose == ReceiveCloseTake(<<SSH_MSG_CHANNEL_CLOSE, client_channel>>, 1)

LiveNext ==
    \/ SendAlgorithm /\ transport' = "up"
    \/ Deliver("receive_algorithm", "receive_algorithm", "failed")
    \/ \E data \in Unrelated : ReceiveAlgorithmTake(data)
    \/ ServerKexInit
    \/ Negotiate
    \/ SendQc /\ transport' = "up"
    \/ Deliver("verify", "verify", "failed")
    \/ \E data \in Unrelated : VerifyTake(data, 1)
    \/ ServerReply
    \/ ServerNewKeys
    \/ \E data \in Unrelated \ {Empty} : DispatchTake(data, 1)
    \/ CloseCall(1)
    \/ Deliver("receive_close", "close", "idle")
    \/ \E data \in Unrelated \ {Empty} : ReceiveCloseTake(data, 1)
    \/ ReceiveCloseTake(Empty, 1)
    \/ PeerClose

\* The client runs on (its own steps and the reads are taken when they can
\* be), and the peer sends each promised message at some time.
LiveFairness ==
    /\ WF_vars(SendAlgorithm /\ transport' = "up")
    /\ WF_vars(Negotiate)
    /\ WF_vars(SendQc /\ transport' = "up")
    /\ WF_vars(Deliver("receive_algorithm", "receive_algorithm", "failed"))
    /\ WF_vars(Deliver("verify", "verify", "failed"))
    /\ WF_vars(Deliver("receive_close", "close", "idle"))
    /\ SF_vars(ServerKexInit)
    /\ SF_vars(ServerReply)
    /\ SF_vars(ServerNewKeys)
    /\ SF_vars(PeerClose)

LiveSpec == Init /\ [][LiveNext]_vars /\ LiveFairness

\* -------------------------------------------------------------- claims
Sent(code) == Cardinality({i \in 1..Len(out) : out[i].code = code})

FirstKex == pc \in {"send_algorithm", "receive_algorithm", "negotiate", "send_qc", "verify"}
ChannelOpen == pc \in {"idle", "receive_close"}

\* C1: once a host-key verification has returned false, the operation fails
\* with the signature error, and no step afterwards writes SSH_MSG_NEWKEYS.
C1_SignatureGate ==
    [][ /\ (~sig_rejected /\ sig_rejected') => result'.res = "SignatureError"
        /\ sig_rejected => Sent(SSH_MSG_NEWKEYS)' = Sent(SSH_MSG_NEWKEYS) ]_vars

\* C2: a step writes SSH_MSG_NEWKEYS or enables encryption only when a
\* KEX_ECDH_REPLY of the current exchange has been verified as true.
C2_NewKeysOnlyFromVerified ==
    [][ (Sent(SSH_MSG_NEWKEYS)' > Sent(SSH_MSG_NEWKEYS) \/ (~IS_ENCRYPT /\ IS_ENCRYPT'))
            => verified ]_vars

\* C3: after the first key exchange has produced the session id, no step
\* changes session_id, and the key installed after a verified rekey reply is
\* derived from the exchange hash of the new transcript together with that
\* session id.
C3_SessionIdFrozen ==
    [][ (ChannelOpen /\ session_id # Empty) =>
            /\ session_id' = session_id
            /\ (verified /\ encryption_key' # encryption_key /\ encryption_key' # None) =>
                   /\ encryption_key'.h = Digest(h')
                   /\ encryption_key'.session_id = session_id ]_vars

\* C4: once encryption is enabled no step disables it or removes the
\* installed cipher suite (steps in which the transport fails aside).
C4_EncryptionStaysEnabled ==
    [][ (IS_ENCRYPT /\ transport' = "up") =>
            (IS_ENCRYPT' /\ encryption_key' # None) ]_vars

\* C5: encryption is off through the first key exchange and is on only once
\* the client has written NEWKEYS; the first NEWKEYS is written in the clear
\* and every packet written after it is written encrypted.
C5_SwitchoverAtNewKeys ==
    /\ FirstKex => ~IS_ENCRYPT
    /\ IS_ENCRYPT => Sent(SSH_MSG_NEWKEYS) >= 1
    /\ \A i \in 1..Len(out) :
         (out[i].code = SSH_MSG_NEWKEYS
            /\ \A j \in 1..(i - 1) : out[j].code # SSH_MSG_NEWKEYS)
         => /\ out[i].enc = FALSE
            /\ \A j \in (i + 1)..Len(out) : out[j].enc = TRUE

\* C6: the client never writes more than one SSH_MSG_CHANNEL_CLOSE.
C6_AtMostOneClose == Sent(SSH_MSG_CHANNEL_CLOSE) <= 1

\* The general handler has answered the peer's CHANNEL_CLOSE by calling
\* close(): both sides are closed and one CHANNEL_CLOSE is on the wire.
C6_Witness ==
    /\ result = [op |-> "other", res |-> "ok"]
    /\ local_close /\ remote_close
    /\ Sent(SSH_MSG_CHANNEL_CLOSE) = 1

\* A step of close(): the call itself, or an iteration of the drain loop.
CloseStep ==
    \/ pc = "receive_close"
    \/ pc = "idle" /\ (pc' = "receive_close" \/ result'.op = "close")

\* C7: a close() called right after a close() has returned returns what that
\* one returned and changes neither close flag nor what has been written
\* (steps in which the transport itself fails aside).
C7_CloseTwiceSameResult ==
    [][ (result.op = "close" /\ CloseStep /\ transport' = transport) =>
            /\ result'.res = result.res
            /\ local_close' = local_close
            /\ remote_close' = remote_close
            /\ out' = out ]_vars

CloseFor(c) == <<SSH_MSG_CHANNEL_CLOSE, c>>

\* C8: whenever close() has returned Ok both close flags are set and the
\* client's CHANNEL_CLOSE has been written; a CHANNEL_CLOSE for another channel
\* leaves remote_close as it is and the drain loop running; and remote_close
\* changes only on a CHANNEL_CLOSE for the client's channel.
C8_CloseSuccess ==
    /\ [](result = [op |-> "close", res |-> "ok"] =>
             (local_close /\ remote_close /\ Sent(SSH_MSG_CHANNEL_CLOSE) >= 1))
    /\ [][ \A c \in Channels \ {client_channel} : \A io \in 0..1 :
             ReceiveCloseTake(CloseFor(c), io) =>
                 (remote_close' = remote_close /\ pc' = "receive_close") ]_vars
    /\ [][ remote_close' # remote_close =>
             \E io \in 0..1 : \/ ReceiveCloseTake(CloseFor(client_channel), io)
                              \/ DispatchTake(CloseFor(client_channel), io) ]_vars

\* close() has returned Ok after draining: the transport is up and both
\* flags are set.
C8_Witness ==
    /\ pc = "idle"
    /\ result = [op |-> "close", res |-> "ok"]
    /\ transport = "up"
    /\ local_close /\ remote_close

\* C9: while receive_algorithm waits for the server KEXINIT, taking a
\* KEX_ECDH_REPLY or a NEWKEYS makes it return a protocol-violation error.
C9_LaterPhaseIsViolation ==
    [][ \A data \in {<<SSH_MSG_NEWKEYS>>}
                    \cup {<<SSH_MSG_KEX_ECDH_REPLY, HostKey, qs, sg>> : qs \in Vals, sg \in Sigs} :
            ReceiveAlgorithmTake(data) =>
                (pc' = "failed" /\ result'.res = "ProtocolViolation") ]_vars

\* C10: in every phase, taking an SSH_MSG_GLOBAL_REQUEST while the transport
\* stays up writes exactly one SSH_MSG_REQUEST_FAILURE and changes nothing
\* else of the session.
C10_GlobalRequestAnswered ==
    [][ \A io \in 0..1 :
            (/\ transport' = "up"
             /\ \/ ReceiveAlgorithmTake(<<SSH_MSG_GLOBAL_REQUEST>>)
                \/ VerifyTake(<<SSH_MSG_GLOBAL_REQUEST>>, io)
                \/ ReceiveCloseTake(<<SSH_MSG_GLOBAL_REQUEST>>, io)
                \/ DispatchTake(<<SSH_MSG_GLOBAL_REQUEST>>, io))
            => /\ out' = Append(out, [code |-> SSH_MSG_REQUEST_FAILURE, enc |-> IS_ENCRYPT])
               /\ UNCHANGED <<session_id, h, dh, server_algorithm, IS_ENCRYPT,
                              encryption_key, remote_close, local_close,
                              remote_window>> ]_vars

\* A KEX_ECDH_REPLY with either signature.
Replies == {<<SSH_MSG_KEX_ECDH_REPLY, HostKey, qs, sg>> : qs \in Vals, sg \in Sigs}

\* C11: whenever the exchange hash is computed on a KEX_ECDH_REPLY, each of the
\* eight transcript fields has been set exactly once in the current exchange.
C11_HashFromCompleteTranscript ==
    [][ \A data \in Replies : \A io \in 0..1 :
            (\/ VerifyTake(data, io)
             \/ ReceiveCloseTake(data, io)
             \/ DispatchTake(data, io))
            => \A f \in Fields : h_sets'[f] = 1 ]_vars

\* The message codes of the packets written so far, in order.
Codes(o) == [i \in 1..Len(o) |-> o[i].code]

C13_ChannelFailureFatal ==
    /\ [][ \A io \in 0..1 :
              ReceiveCloseTake(<<SSH_MSG_CHANNEL_FAILURE>>, io)
              => /\ result' = [op |-> "close", res |-> "ChannelFailureError"]
                 /\ pc' = "idle"
                 /\ pending' = 0
                 /\ UNCHANGED <<remote_close, local_close, out>> ]_vars
    /\ [][ \A io \in 0..1 :
              DispatchTake(<<SSH_MSG_CHANNEL_FAILURE>>, io)
              => /\ result' = [op |-> "other", res |-> "ChannelFailureError"]
                 /\ UNCHANGED <<remote_close, local_close, out>> ]_vars

\* close() has returned the channel-failure error from its drain loop.
C13_Witness ==
    /\ pc = "idle"
    /\ result = [op |-> "close", res |-> "ChannelFailureError"]
    /\ local_close /\ ~remote_close

\* The payloads the general handler acknowledges silently; SSH_MSG_IGNORE is a
\* code it has no arm for.
Silent == {<<SSH_MSG_CHANNEL_SUCCESS>>, <<SSH_MSG_CHANNEL_EOF>>,
           <<SSH_MSG_CHANNEL_REQUEST>>, <<SSH_MSG_IGNORE>>}

\* C15: handling CHANNEL_SUCCESS, CHANNEL_EOF, CHANNEL_REQUEST or an unknown
\* code returns Ok (the drain loop goes on), writes nothing and leaves the
\* close flags, the window, the transcript, session_id and the encryption
\* state as they were.
C15_SilentAcknowledge ==
    [][ \A data \in Silent : \A io \in 0..1 :
            /\ DispatchTake(data, io) => result' = [op |-> "other", res |-> "ok"]
            /\ ReceiveCloseTake(data, io) => (pc' = "receive_close" /\ result' = result)
            /\ (DispatchTake(data, io) \/ ReceiveCloseTake(data, io))
               => UNCHANGED <<out, local_close, remote_close, remote_window, h,
                              session_id, dh, server_algorithm, IS_ENCRYPT,
                              encryption_key, transport>> ]_vars

\* other() has returned Ok on the open channel and nothing but the result has
\* changed since the first key exchange.
C15_Witness ==
    /\ pc = "idle"
    /\ result = [op |-> "other", res |-> "ok"]
    /\ Codes(out) = <<SSH_MSG_KEXINIT, SSH_MSG_KEX_ECDH_INIT, SSH_MSG_NEWKEYS>>
    /\ ~local_close /\ ~remote_close /\ remote_window = 0
    /\ IS_ENCRYPT /\ h_sets = NotSet

\* The cipher suite that belongs to a negotiated encryption algorithm.
SuiteOf(a) == IF a = "chacha20-poly1305@openssh.com" THEN "ChaCha20Poly1305" ELSE "AesCtr"

\* C14: whenever a cipher suite is installed from the shared secret of a
\* reply and the negotiated encryption algorithm is one the client supports,
\* the installed suite is the one of that algorithm.
C14_SuiteIsNegotiated ==
    (encryption_key # None /\ encryption_key.k # Empty /\ server_algorithm \in Supported)
        => encryption_key.cipher = SuiteOf(server_algorithm)

\* C16: a KEX_ECDH_REPLY whose verification returns false ends in the
\* signature error and leaves session_id as it was before the reply.
C16_SessionIdKeptOnRejection ==
    [][ \A qs \in Vals : \A io \in 0..1 :
            LET data == <<SSH_MSG_KEX_ECDH_REPLY, HostKey, qs, "flipped">> IN
            (\/ VerifyTake(data, io)
             \/ ReceiveCloseTake(data, io)
             \/ DispatchTake(data, io))
            => (result'.res = "SignatureError" /\ session_id' = session_id) ]_vars

\* C17: a CHANNEL_CLOSE for the client's channel handed to other() on the open
\* channel (the transport staying up) sets remote_close, writes the client's
\* CHANNEL_CLOSE exactly when local_close was false, and returns Ok with both
\* flags true and without entering the read loop; a CHANNEL_CLOSE for another
\* channel returns Ok, changes neither flag and writes nothing.
C17_RemoteInitiatedClose ==
    /\ [][ \A io \in 0..1 :
              (DispatchTake(<<SSH_MSG_CHANNEL_CLOSE, client_channel>>, io) /\ transport' = "up")
              => /\ remote_close' /\ local_close'
                 /\ Codes(out') = IF local_close THEN Codes(out)
                                  ELSE Codes(out) \o <<SSH_MSG_CHANNEL_CLOSE>>
                 /\ result' = [op |-> "other", res |-> "ok"]
                 /\ pc' = "idle" /\ pending' = pending ]_vars
    /\ [][ \A c \in Channels \ {client_channel} : \A io \in 0..1 :
              DispatchTake(<<SSH_MSG_CHANNEL_CLOSE, c>>, io)
              => /\ result' = [op |-> "other", res |-> "ok"]
                 /\ UNCHANGED <<remote_close, local_close, out, pc, transport>> ]_vars

\* other() has answered the peer's CHANNEL_CLOSE on a channel the client had
\* not closed: its CHANNEL_CLOSE is the last packet written and nothing is
\* being read.
C17_Witness ==
    /\ pc = "idle" /\ pending = 0
    /\ result = [op |-> "other", res |-> "ok"]
    /\ local_close /\ remote_close
    /\ Codes(out) = <<SSH_MSG_KEXINIT, SSH_MSG_KEX_ECDH_INIT, SSH_MSG_NEWKEYS,
                      SSH_MSG_CHANNEL_CLOSE>>

\* C18: neither close flag goes from true to false; local_close is true only
\* if a CHANNEL_CLOSE has been written and changes only in a step that writes
\* one; remote_close becomes true only in a step that takes a CHANNEL_CLOSE for
\* the client's channel.
C18_CloseFlagsTruthful ==
    /\ [](local_close => Sent(SSH_MSG_CHANNEL_CLOSE) >= 1)
    /\ [][ /\ local_close => local_close'
           /\ remote_close => remote_close'
           /\ local_close' # local_close
                 => Sent(SSH_MSG_CHANNEL_CLOSE)' = Sent(SSH_MSG_CHANNEL_CLOSE) + 1
           /\ (~remote_close /\ remote_close')
                 => \E io \in 0..1 :
                        \/ ReceiveCloseTake(<<SSH_MSG_CHANNEL_CLOSE, client_channel>>, io)
                        \/ DispatchTake(<<SSH_MSG_CHANNEL_CLOSE, client_channel>>, io) ]_vars

\* close() has failed on the write of its CHANNEL_CLOSE: nothing was written
\* and local_close is still false.
C18_Witness ==
    /\ result = [op |-> "close", res |-> "IoError"]
    /\ ~local_close /\ ~remote_close
    /\ Sent(SSH_MSG_CHANNEL_CLOSE) = 0

\* C19: with the transport delivering and the peer's CHANNEL_CLOSE for the
\* client's channel coming at some time, a close() that is draining returns
\* Ok, whatever unrelated messages come first; and close() has returned Ok
\* only if that CHANNEL_CLOSE was received.
C19_CloseCompletes ==
    /\ (pc = "receive_close") ~> (pc = "idle" /\ result = [op |-> "close", res |-> "ok"])
    /\ [](result = [op |-> "close", res |-> "ok"] => (remote_close /\ local_close))
    /\ [][ (pc = "receive_close" /\ pc' # "receive_close") => PeerClose ]_vars

\* close() has returned Ok after its drain loop answered a global request
\* and took a window adjustment.
C19_Witness ==
    /\ pc = "idle"
    /\ result = [op |-> "close", res |-> "ok"]
    /\ remote_window = 1
    /\ Codes(out) = <<SSH_MSG_KEXINIT, SSH_MSG_KEX_ECDH_INIT, SSH_MSG_NEWKEYS,
                      SSH_MSG_CHANNEL_CLOSE, SSH_MSG_REQUEST_FAILURE>>

\* The key-exchange packets among those written, in order.
KexCodes(o) ==
    SelectSeq(Codes(o), LAMBDA c : c \in {SSH_MSG_KEXINIT, SSH_MSG_KEX_ECDH_INIT,
                                            SSH_MSG_NEWKEYS})

\* The first key exchange has just ended: nothing has been returned since
\* verify_signature_and_new_keys returned Ok.
Established ==
    /\ pc = "idle"
    /\ result = [op |-> "verify", res |-> "ok"]
    /\ IS_ENCRYPT /\ encryption_key # None
    /\ KexCodes(out) = <<SSH_MSG_KEXINIT, SSH_MSG_KEX_ECDH_INIT, SSH_MSG_NEWKEYS>>

\* C20: against a server that offers a supported algorithm and sends KEXINIT,
\* a validly signed KEX_ECDH_REPLY and NEWKEYS, with unrelated or empty
\* payloads in between, the first key exchange reaches Established: encryption
\* is on and the client has written one KEXINIT, one KEX_ECDH_INIT and one
\* NEWKEYS, in that order.
C20_FirstKexCompletes ==
    (pc = "send_algorithm" /\ server_offer \in Supported) ~> Established

\* Established, reached through a verified reply: the installed key holds
\* the shared secret of the first exchange.
C20_Witness ==
    /\ Established
    /\ ~sig_rejected
    /\ encryption_key.k = SharedSecret(1, 1)

====
